---- MODULE Spec2Model ----
(***************************************************************************)
(* A model of chain/net/http/authz: the Authorizer that decides, for a     *)
(* request, whether the presented credentials satisfy one of the grants    *)
(* of the policies its route requires.                                     *)
(*                                                                         *)
(* Strings that the code only compares are TLA+ strings.  A request URI is *)
(* a sequence of characters/segments so that strings.TrimRight can be      *)
(* computed.  GuardData bytes are a record [enc, kv]: enc says what the    *)
(* bytes are ("json" object, "dn" distinguished name, "empty", "garbage"), *)
(* kv is the sequence of key/value pairs they spell.                       *)
(***************************************************************************)
EXTENDS Naturals, Sequences, FiniteSets, TLC

VARIABLES
    extraGrants,  \* [process -> [policy -> sequence of Grant]]   Authorizer.extraGrants
    registered,   \* [process -> set of subjects]  history: what GrantInternal accepted
    log,          \* the versions of the replicated store, oldest first
    applied,      \* [process -> index into log]  the version its replica has applied
    last,         \* what the step just taken was and what it returned
    mGrants,      \* guard matcher harness: the grant list handed to authorized
    mCtx,         \* guard matcher harness: the credential context
    mDone,        \* guard matcher harness: authorized has run
    mResult,      \* guard matcher harness: what authorized returned
    wr,           \* threads of one process: where its GrantInternal call stands
    rd,           \* threads of one process: where each grantsByPolicies call stands
    mapWriting    \* threads of one process: the extraGrants map is being assigned to

vars == <<extraGrants, registered, log, applied, last, mGrants, mCtx, mDone, mResult,
         wr, rd, mapWriting>>

sysVars == <<extraGrants, registered, log, applied, last>>
matchVars == <<mGrants, mCtx, mDone, mResult>>
raceVars == <<wr, rd, mapWriting>>

(***************************************************************************)
(* Bounds                                                                  *)
(***************************************************************************)
MaxLen == 2      \* longest multi-valued subject field
MaxCerts == 2    \* most certificates a context presents
MaxList == 2     \* longest grant list handed to the matcher harness
MaxLocal == 1    \* most GrantInternal registrations accepted, all processes together
MaxWrites == 2   \* most writes the replicated store takes

(***************************************************************************)
(* crypto/x509/pkix.Name, and chain/crypto/x509/name                       *)
(***************************************************************************)
EmptyName ==
    [CommonName |-> "", SerialNumber |-> "",
     Country |-> <<>>, Organization |-> <<>>, OrganizationalUnit |-> <<>>,
     Locality |-> <<>>, Province |-> <<>>, StreetAddress |-> <<>>,
     PostalCode |-> <<>>, ExtraNames |-> <<>>]

MultiFields ==
    {"Country", "Organization", "OrganizationalUnit", "Locality",
     "Province", "StreetAddress", "PostalCode"}

\* the attribute type a field is written with in a distinguished name
AttrOf ==
    [CommonName |-> "CN", SerialNumber |-> "SERIALNUMBER",
     Country |-> "C", Organization |-> "O", OrganizationalUnit |-> "OU",
     Locality |-> "L", Province |-> "ST", StreetAddress |-> "STREET",
     PostalCode |-> "POSTALCODE"]

KnownAttrs == {AttrOf[f] : f \in DOMAIN AttrOf}

EmptyBytes == [enc |-> "empty", kv |-> <<>>]
Garbage == [enc |-> "garbage", kv |-> <<>>]

Pairs(attr, values) == [i \in 1..Len(values) |-> <<attr, values[i]>>]

One(attr, value) == IF value = "" THEN <<>> ELSE <<<<attr, value>>>>

\* name.Format: the subject as a distinguished name; an error when the name
\* holds attributes the format cannot express
Format(n) ==
    IF n.ExtraNames # <<>>
    THEN [err |-> TRUE, data |-> EmptyBytes]
    ELSE [err |-> FALSE,
          data |-> [enc |-> "dn",
                    kv |-> One("CN", n.CommonName)
                           \o Pairs("C", n.Country)
                           \o Pairs("O", n.Organization)
                           \o Pairs("OU", n.OrganizationalUnit)
                           \o Pairs("L", n.Locality)
                           \o Pairs("ST", n.Province)
                           \o Pairs("STREET", n.StreetAddress)
                           \o Pairs("POSTALCODE", n.PostalCode)
                           \o One("SERIALNUMBER", n.SerialNumber)]]

AttrValues(kv, attr) ==
    LET sel == SelectSeq(kv, LAMBDA p : p[1] = attr)
    IN  [i \in 1..Len(sel) |-> sel[i][2]]

LastOr(values, dflt) == IF values = <<>> THEN dflt ELSE values[Len(values)]

\* name.Parse: the pattern a distinguished name spells; an error when the
\* bytes are no distinguished name or name an unknown attribute
Parse(data) ==
    IF /\ data.enc \in {"dn", "empty"}
       /\ \A i \in 1..Len(data.kv) : data.kv[i][1] \in KnownAttrs
    THEN [err |-> FALSE,
          name |-> [CommonName |-> LastOr(AttrValues(data.kv, "CN"), ""),
                    SerialNumber |-> LastOr(AttrValues(data.kv, "SERIALNUMBER"), ""),
                    Country |-> AttrValues(data.kv, "C"),
                    Organization |-> AttrValues(data.kv, "O"),
                    OrganizationalUnit |-> AttrValues(data.kv, "OU"),
                    Locality |-> AttrValues(data.kv, "L"),
                    Province |-> AttrValues(data.kv, "ST"),
                    StreetAddress |-> AttrValues(data.kv, "STREET"),
                    PostalCode |-> AttrValues(data.kv, "POSTALCODE"),
                    ExtraNames |-> <<>>]]
    ELSE [err |-> TRUE, name |-> EmptyName]

(***************************************************************************)
(* Grants and credential contexts                                          *)
(***************************************************************************)
Now == "2017-01-01T00:00:00Z"

Grant(type, data, policy) ==
    [GuardType |-> type, GuardData |-> data, Policy |-> policy, CreatedAt |-> Now]

builtinGrants == <<[GuardType |-> "any", GuardData |-> EmptyBytes,
                    Policy |-> "public", CreatedAt |-> ""]>>

\* the facts authn put into the request's context
Context(token, certs, localhost) ==
    [token |-> token, certs |-> certs, localhost |-> localhost]

Token(ctx) == ctx.token
X509Certs(ctx) == ctx.certs
Localhost(ctx) == ctx.localhost

\* encoding/json.Unmarshal into struct{ ID string }: the "id" member of a
\* JSON object; on an error (bytes that are no JSON object) ID keeps ""
JsonID(data) ==
    IF data.enc = "json" THEN LastOr(AttrValues(data.kv, "id"), "") ELSE ""

accessTokenGuardData(grant) == JsonID(grant.GuardData)

matchesString(pat, x) == pat = "" \/ pat = x

\* a variant of matchesStrings that takes the pattern as a set of values
matchesStringsAsSet(pat, x) ==
    \A i \in 1..Len(pat) : \E j \in 1..Len(x) : pat[i] = x[j]

matchesStrings(pat, x) ==
    IF Len(x) < Len(pat)
    THEN FALSE
    ELSE \A i \in 1..Len(pat) : pat[i] = x[i]

matchesX509(pat, x) ==
    /\ matchesString(pat.CommonName, x.CommonName)
    /\ matchesStrings(pat.Country, x.Country)
    /\ matchesStrings(pat.Organization, x.Organization)
    /\ matchesStrings(pat.OrganizationalUnit, x.OrganizationalUnit)
    /\ matchesStrings(pat.Locality, x.Locality)
    /\ matchesStrings(pat.Province, x.Province)
    /\ matchesStrings(pat.StreetAddress, x.StreetAddress)
    /\ matchesStrings(pat.PostalCode, x.PostalCode)
    /\ matchesString(pat.SerialNumber, x.SerialNumber)

\* a variant of the switch that lets a localhost guard pass any request
\* that presents a credential
guardCaseLocalhostByCredential(ctx, g) ==
    CASE g.GuardType = "access_token" ->
            accessTokenGuardData(g) = Token(ctx)
      [] g.GuardType = "x509" ->
            LET p == Parse(g.GuardData)
            IN  IF p.err
                THEN FALSE
                ELSE \E i \in 1..Len(X509Certs(ctx)) :
                        matchesX509(p.name, X509Certs(ctx)[i])
      [] g.GuardType = "localhost" ->
            Localhost(ctx) \/ Token(ctx) # "" \/ X509Certs(ctx) # <<>>
      [] g.GuardType = "any" -> TRUE
      [] OTHER -> FALSE

\* one turn of the loop of authorized: the switch on g.GuardType; TRUE when
\* the case returns true, FALSE when the loop goes on to the next grant
guardCase(ctx, g) ==
    CASE g.GuardType = "access_token" ->
            accessTokenGuardData(g) = Token(ctx)
      [] g.GuardType = "x509" ->
            LET p == Parse(g.GuardData)
            IN  IF p.err
                THEN FALSE
                ELSE \E i \in 1..Len(X509Certs(ctx)) :
                        matchesX509(p.name, X509Certs(ctx)[i])
      [] g.GuardType = "localhost" -> Localhost(ctx)
      [] g.GuardType = "any" -> TRUE
      [] OTHER -> FALSE

\* the grants the loop of authorized looks at before it returns
RECURSIVE evaluated(_, _, _)
evaluated(ctx, grants, i) ==
    IF i > Len(grants) THEN Len(grants)
    ELSE IF guardCase(ctx, grants[i]) THEN i
    ELSE evaluated(ctx, grants, i + 1)

RECURSIVE authorizedFrom(_, _, _)
authorizedFrom(ctx, grants, i) ==
    IF i > Len(grants) THEN FALSE
    ELSE IF guardCase(ctx, grants[i]) THEN TRUE
    ELSE authorizedFrom(ctx, grants, i + 1)

authorized(ctx, grants) == authorizedFrom(ctx, grants, 1)

(***************************************************************************)
(* The guard matcher on its own: authorized applied to one grant list and  *)
(* one credential context drawn from bounded sets.                         *)
(***************************************************************************)
RECURSIVE SeqsUpTo(_, _)
SeqsUpTo(S, n) ==
    IF n = 0 THEN {<<>>}
    ELSE LET shorter == SeqsUpTo(S, n - 1)
         IN  shorter \cup {Append(s, x) : s \in shorter, x \in S}

RECURSIVE SetToSeq(_)
SetToSeq(S) ==
    IF S = {} THEN <<>>
    ELSE LET x == CHOOSE y \in S : TRUE
         IN  <<x>> \o SetToSeq(S \ {x})

FieldValues == SeqsUpTo({"Acme", "Eng"}, MaxLen)

\* patterns that constrain the common name and one multi-valued field
PatternsOn(f) ==
    {[[EmptyName EXCEPT ![f] = v] EXCEPT !.CommonName = cn] :
        v \in FieldValues, cn \in {"", "a"}}

\* certificate subjects that differ in the common name and in that field
SubjectsOn(f) ==
    {[[EmptyName EXCEPT ![f] = v] EXCEPT !.CommonName = "a"] : v \in FieldValues}
    \cup {[[EmptyName EXCEPT ![f] = v] EXCEPT !.CommonName = "b"] :
            v \in {w \in FieldValues : Len(w) <= 1}}

CertListsOn(f) ==
    {SetToSeq(S) : S \in {T \in SUBSET SubjectsOn(f) : Cardinality(T) <= MaxCerts}}

SerialNames(cns, sns) ==
    {[EmptyName EXCEPT !.CommonName = cn, !.SerialNumber = sn] : cn \in cns, sn \in sns}

AcmeEng == [EmptyName EXCEPT !.CommonName = "a", !.Organization = <<"Acme", "Eng">>]

JsonBytes(kv) == [enc |-> "json", kv |-> kv]

\* grants of every guard type, well-formed and malformed
HarnessGrants ==
    {Grant("access_token", JsonBytes(<<<<"id", "tok123">>>>), "client-readwrite"),
     Grant("access_token", JsonBytes(<<<<"id", "">>>>), "client-readwrite"),
     Grant("access_token", JsonBytes(<<<<"name", "tok123">>>>), "client-readwrite"),
     Grant("access_token", Garbage, "client-readwrite"),
     Grant("x509", Garbage, "network"),
     Grant("x509", [enc |-> "dn", kv |-> <<<<"O", "Acme">>, <<"BOGUS", "x">>>>], "network"),
     Grant("x509", [enc |-> "dn", kv |-> <<<<"O", "Acme">>, <<"CN", "a">>>>], "network"),
     Grant("localhost", EmptyBytes, "monitoring"),
     Grant("any", EmptyBytes, "public")}

HarnessContexts ==
    {Context(t, c, l) : t \in {"", "tok123", "tok456"},
                        c \in {<<>>, <<AcmeEng>>}, l \in BOOLEAN}

EmptyContext == Context("", <<>>, FALSE)

MatchIdle ==
    /\ mGrants = <<>>
    /\ mCtx = EmptyContext
    /\ mDone = FALSE
    /\ mResult = FALSE

MatchInputs ==
    \/ \E f \in MultiFields : \E pat \in PatternsOn(f) :
          /\ mGrants = <<Grant("x509", Format(pat).data, "network")>>
          /\ mCtx \in {Context("", c, FALSE) : c \in CertListsOn(f)}
    \/ \E pat \in SerialNames({"", "a"}, {"", "7"}) :
          /\ mGrants = <<Grant("x509", Format(pat).data, "network")>>
          /\ mCtx \in {Context("", SetToSeq(S), FALSE) :
                          S \in {T \in SUBSET SerialNames({"a", "b"}, {"7", "8"}) :
                                    Cardinality(T) <= MaxCerts}}
    \/ /\ mGrants \in SeqsUpTo(HarnessGrants, MaxList)
       /\ mCtx \in HarnessContexts

\* a request handler calling authorized(ctx, grants)
Match ==
    /\ ~mDone
    /\ mDone' = TRUE
    /\ mResult' = authorized(mCtx, mGrants)
    /\ UNCHANGED <<mGrants, mCtx>>
    /\ UNCHANGED <<sysVars, raceVars>>

(***************************************************************************)
(* The Authorizer of every process, over the replicated store              *)
(***************************************************************************)
Procs == {"A", "B"}

raftPrefix == "/core/grant/"

\* the configured route table handed to NewAuthorizer
policyByRoute ==
    (<<"/accounts">> :> <<"client-readwrite">>)
    @@ (<<"/raft">> :> <<"internal">>)
    @@ (<<"/join">> :> <<"internal", "network">>)
    @@ (<<"/info">> :> <<"public", "client-readwrite">>)
    @@ (<<"/empty">> :> <<>>)

RequestURIs ==
    {<<"/accounts">>, <<"/accounts", "/">>, <<"/raft">>, <<"/join">>,
     <<"/join", "/", "/">>, <<"/info">>, <<"/empty">>, <<"/status">>, <<"/">>}

ErrNotAuthorized == "not authorized"
ErrMissingPolicy == "missing policy on this route"
ErrUnmarshal == "proto: cannot parse grant list"
Permit == "nil"
Panic == "panic"

\* strings.TrimRight(s, cut)
RECURSIVE TrimRight(_, _)
TrimRight(s, cut) ==
    IF s # <<>> /\ s[Len(s)] = cut
    THEN TrimRight(SubSeq(s, 1, Len(s) - 1), cut)
    ELSE s

\* a map lookup of a missing key gives the nil slice
Lookup(m, k) == IF k \in DOMAIN m THEN m[k] ELSE <<>>

\* a variant of NewAuthorizer that leaves the builtin grants out
NewAuthorizerWithoutBuiltins == [q \in {} |-> <<>>]

NewAuthorizer ==
    [q \in {builtinGrants[i].Policy : i \in 1..Len(builtinGrants)} |->
        SelectSeq(builtinGrants, LAMBDA g : g.Policy = q)]

(* raft.Service: the replicated key-value store.  A value is absent, the   *)
(* encoding of a GrantList, or bytes that are no GrantList.                *)
NoValue == [kind |-> "nil", grants |-> <<>>]
ListValue(grants) == [kind |-> "list", grants |-> grants]
CorruptValue == [kind |-> "corrupt", grants |-> <<>>]

Key(policy) == <<raftPrefix, policy>>

StoredPolicies == {"client-readwrite", "network"}

EmptyStore == [k \in {Key(q) : q \in StoredPolicies} |-> NoValue]

\* raftDB.Stale().Get(key): the value in the version this process's replica
\* has applied, which may be older than the newest
StaleGet(a, key) ==
    IF key \in DOMAIN log[applied[a]] THEN log[applied[a]][key] ELSE NoValue

\* proto.Unmarshal(data, grantList)
Unmarshal(data) ==
    IF data.kind = "list"
    THEN [err |-> FALSE, grants |-> data.grants]
    ELSE [err |-> TRUE, grants |-> <<>>]

\* a variant of grantsByPolicies that passes over a list it cannot decode
RECURSIVE grantsByPoliciesSkipBad(_, _, _, _)
grantsByPoliciesSkipBad(a, policies, i, grants) ==
    IF i > Len(policies) THEN [err |-> FALSE, grants |-> grants]
    ELSE LET withExtra == grants \o Lookup(extraGrants[a], policies[i])
             data == StaleGet(a, Key(policies[i]))
         IN  IF data.kind = "list"
             THEN grantsByPoliciesSkipBad(a, policies, i + 1,
                                          withExtra \o Unmarshal(data).grants)
             ELSE grantsByPoliciesSkipBad(a, policies, i + 1, withExtra)

\* a variant of grantsByPolicies that stops after the first policy
grantsByPoliciesFirstOnly(a, policies, i, grants) ==
    LET data == StaleGet(a, Key(policies[1]))
    IN  IF i > Len(policies) THEN [err |-> FALSE, grants |-> grants]
        ELSE IF data.kind # "nil"
        THEN IF Unmarshal(data).err
             THEN [err |-> TRUE, grants |-> <<>>]
             ELSE [err |-> FALSE,
                   grants |-> Lookup(extraGrants[a], policies[1])
                              \o Unmarshal(data).grants]
        ELSE [err |-> FALSE, grants |-> Lookup(extraGrants[a], policies[1])]

\* a variant of grantsByPolicies that never reads the store
RECURSIVE grantsByPoliciesExtraOnly(_, _, _, _)
grantsByPoliciesExtraOnly(a, policies, i, grants) ==
    IF i > Len(policies) THEN [err |-> FALSE, grants |-> grants]
    ELSE grantsByPoliciesExtraOnly(a, policies, i + 1,
                                   grants \o Lookup(extraGrants[a], policies[i]))

\* the loop of grantsByPolicies from its i-th policy on, grants so far
RECURSIVE grantsByPolicies(_, _, _, _)
grantsByPolicies(a, policies, i, grants) ==
    IF i > Len(policies) THEN [err |-> FALSE, grants |-> grants]
    ELSE LET withExtra == grants \o Lookup(extraGrants[a], policies[i])
             data == StaleGet(a, Key(policies[i]))
         IN  IF data.kind # "nil"
             THEN IF Unmarshal(data).err
                  THEN [err |-> TRUE, grants |-> <<>>]
                  ELSE grantsByPolicies(a, policies, i + 1,
                                        withExtra \o Unmarshal(data).grants)
             ELSE grantsByPolicies(a, policies, i + 1, withExtra)

\* last holds the step whose outcome its caller has not taken yet; steps are
\* recorded one at a time
Idle == [op |-> "none"]

\* a variant of Authorize without the test for a route without policies
AuthorizeNoPolicyCheck(a, uri, ctx) ==
    LET policies == Lookup(policyByRoute, TrimRight(uri, "/"))
        fetched == grantsByPolicies(a, policies, 1, <<>>)
        result == IF fetched.err THEN ErrUnmarshal
                  ELSE IF ~authorized(ctx, fetched.grants) THEN ErrNotAuthorized
                  ELSE Permit
    IN  /\ last = Idle
        /\ last' = [op |-> "Authorize", proc |-> a, uri |-> uri, ctx |-> ctx,
                    result |-> result, evaluated |-> 0]
        /\ UNCHANGED <<extraGrants, registered, log, applied>>
        /\ UNCHANGED <<matchVars, raceVars>>

\* Authorizer.Authorize(req) on process a: the whole call
Authorize(a, uri, ctx) ==
    LET policies == Lookup(policyByRoute, TrimRight(uri, "/"))
        fetched == grantsByPolicies(a, policies, 1, <<>>)
        result == IF Len(policies) = 0 THEN ErrMissingPolicy
                  ELSE IF fetched.err THEN ErrUnmarshal
                  ELSE IF ~authorized(ctx, fetched.grants) THEN ErrNotAuthorized
                  ELSE Permit
        looked == IF Len(policies) = 0 \/ fetched.err THEN 0
                  ELSE evaluated(ctx, fetched.grants, 1)
    IN  /\ last = Idle
        /\ last' = [op |-> "Authorize", proc |-> a, uri |-> uri, ctx |-> ctx,
                    result |-> result, evaluated |-> looked]
        /\ UNCHANGED <<extraGrants, registered, log, applied>>
        /\ UNCHANGED <<matchVars, raceVars>>

Registrations ==
    LET count(a) == Len(Lookup(extraGrants[a], "internal"))
    IN  count("A") + count("B")

\* a variant of GrantInternal that drops the error of name.Format
GrantInternalIgnoringError(a, subj) ==
    /\ last = Idle
    /\ Registrations < MaxLocal
    /\ extraGrants' =
          [extraGrants EXCEPT ![a] =
              ("internal" :> Append(Lookup(extraGrants[a], "internal"),
                                    Grant("x509", Format(subj).data, "internal")))
              @@ extraGrants[a]]
    /\ registered' = [registered EXCEPT ![a] = @ \cup {subj}]
    /\ last' = [op |-> "GrantInternal", proc |-> a, subj |-> subj, result |-> Permit]
    /\ UNCHANGED <<log, applied>>
    /\ UNCHANGED <<matchVars, raceVars>>

\* a variant of GrantInternal over a registry shared by all processes
GrantInternalShared(a, subj) ==
    /\ last = Idle
    /\ IF Format(subj).err
       THEN /\ last' = [op |-> "GrantInternal", proc |-> a, subj |-> subj,
                        result |-> Panic]
            /\ UNCHANGED <<extraGrants, registered>>
       ELSE /\ Registrations < MaxLocal
            /\ extraGrants' =
                  [b \in Procs |->
                      ("internal" :> Append(Lookup(extraGrants[b], "internal"),
                                            Grant("x509", Format(subj).data, "internal")))
                      @@ extraGrants[b]]
            /\ registered' = [registered EXCEPT ![a] = @ \cup {subj}]
            /\ last' = [op |-> "GrantInternal", proc |-> a, subj |-> subj,
                        result |-> Permit]
    /\ UNCHANGED <<log, applied>>
    /\ UNCHANGED <<matchVars, raceVars>>

\* Authorizer.GrantInternal(subj) on process a; a panic unwinds into the
\* caller before anything is appended
GrantInternal(a, subj) ==
    /\ last = Idle
    /\ IF Format(subj).err
       THEN /\ last' = [op |-> "GrantInternal", proc |-> a, subj |-> subj,
                        result |-> Panic]
            /\ UNCHANGED <<extraGrants, registered>>
       ELSE /\ Registrations < MaxLocal
            /\ extraGrants' =
                  [extraGrants EXCEPT ![a] =
                      ("internal" :> Append(Lookup(extraGrants[a], "internal"),
                                            Grant("x509", Format(subj).data, "internal")))
                      @@ extraGrants[a]]
            /\ registered' = [registered EXCEPT ![a] = @ \cup {subj}]
            /\ last' = [op |-> "GrantInternal", proc |-> a, subj |-> subj,
                        result |-> Permit]
    /\ UNCHANGED <<log, applied>>
    /\ UNCHANGED <<matchVars, raceVars>>

(* The administrative operations on the store (create and delete a grant)  *)
(* are read-modify-writes of the list kept under the grant's policy; every *)
(* write makes a new version, which the replicas apply one after another.  *)
Newest == log[Len(log)]

Write(key, value) ==
    /\ last = Idle
    /\ Len(log) <= MaxWrites
    /\ log' = Append(log, [Newest EXCEPT ![key] = value])
    /\ last' = Idle
    /\ UNCHANGED <<extraGrants, registered, applied>>
    /\ UNCHANGED <<matchVars, raceVars>>

Holds(value, g) == \E i \in 1..Len(value.grants) : value.grants[i] = g

StoreCreate(g) ==
    LET cur == Newest[Key(g.Policy)]
    IN  /\ cur.kind # "corrupt"
        /\ ~Holds(cur, g)
        /\ Write(Key(g.Policy), ListValue(Append(cur.grants, g)))

StoreDelete(g) ==
    LET cur == Newest[Key(g.Policy)]
    IN  /\ cur.kind = "list"
        /\ Holds(cur, g)
        /\ Write(Key(g.Policy), ListValue(SelectSeq(cur.grants, LAMBDA h : h # g)))

\* bytes that are no GrantList come to be stored under the policy's key
StoreCorrupt(policy) ==
    /\ Newest[Key(policy)].kind # "corrupt"
    /\ Write(Key(policy), CorruptValue)

\* the replica of process a applies the next version, whatever the
\* processes are doing
Replicate(a) ==
    /\ applied[a] < Len(log)
    /\ applied' = [applied EXCEPT ![a] = @ + 1]
    /\ last' = Idle
    /\ UNCHANGED <<extraGrants, registered, log>>
    /\ UNCHANGED <<matchVars, raceVars>>

Readers == {"r1", "r2"}

NoCall == [pc |-> "idle", policies |-> <<>>, i |-> 0, grants |-> <<>>, raced |-> FALSE]

RaceIdle ==
    /\ wr = [pc |-> "idle", data |-> EmptyBytes, old |-> <<>>, new |-> <<>>]
    /\ rd = [r \in Readers |-> NoCall]
    /\ mapWriting = FALSE

AcmePattern == [EmptyName EXCEPT !.Organization = <<"Acme">>]
BadSubject == [EmptyName EXCEPT !.ExtraNames = <<"1.2.3.4">>]
OtherCorp == [EmptyName EXCEPT !.CommonName = "b", !.Organization = <<"Other">>]

RegSubjects == {AcmePattern, BadSubject}

TokGrant == Grant("access_token", JsonBytes(<<<<"id", "tok123">>>>), "client-readwrite")
CertGrant == Grant("x509", [enc |-> "dn", kv |-> <<<<"O", "Acme">>>>], "network")

DistGrants == {TokGrant, CertGrant}

SysContexts ==
    {EmptyContext,
     Context("tok123", <<>>, FALSE),
     Context("", <<AcmeEng>>, FALSE),
     Context("tok456", <<OtherCorp>>, FALSE)}

SysInit ==
    /\ extraGrants = [a \in Procs |-> NewAuthorizer]
    /\ registered = [a \in Procs |-> {}]
    /\ log = <<EmptyStore>>
    /\ applied = [a \in Procs |-> 1]
    /\ last = Idle

Init == SysInit /\ MatchIdle /\ RaceIdle

\* the caller has taken the outcome of the step recorded in last
Return ==
    /\ last # Idle
    /\ last' = Idle
    /\ UNCHANGED <<extraGrants, registered, log, applied>>
    /\ UNCHANGED <<matchVars, raceVars>>

Next ==
    \/ \E a \in Procs, uri \in RequestURIs, ctx \in SysContexts : Authorize(a, uri, ctx)
    \/ \E a \in Procs, subj \in RegSubjects : GrantInternal(a, subj)
    \/ \E g \in DistGrants : StoreCreate(g)
    \/ \E g \in DistGrants : StoreDelete(g)
    \/ \E q \in StoredPolicies : StoreCorrupt(q)
    \/ \E a \in Procs : Replicate(a)
    \/ Return

Spec == Init /\ [][Next]_vars

\* every replica goes on applying the versions it has not applied yet
FairSpec == Spec /\ \A a \in Procs : WF_vars(Replicate(a))

InitMatch == SysInit /\ MatchInputs /\ mDone = FALSE /\ mResult = FALSE /\ RaceIdle

NextMatch == Match

SpecMatch == InitMatch /\ [][NextMatch]_vars

(***************************************************************************)
(* GrantInternal and grantsByPolicies as threads of one process ("A").     *)
(* Nothing in the code orders the map assignment of GrantInternal and the  *)
(* map reads of grantsByPolicies: each is a step with a begin and an end,  *)
(* and any of them may begin while another has not ended.  A read that     *)
(* overlaps the assignment is a data race: it yields the list before the   *)
(* assignment, the list after it, a half-written slice, or the runtime's   *)
(* fatal "concurrent map read and map write".                              *)
(***************************************************************************)
Racer == "A"

RacePolicies == {<<"internal">>, <<"internal", "network">>}

\* what a half-written slice header shows
TornList == <<Grant("torn", Garbage, "torn")>>

Crashed == \E r \in Readers : rd[r].pc = "fatal"

\* Authorize has resolved the route and calls grantsByPolicies(policies)
ReadCall(r, policies) ==
    /\ ~Crashed
    /\ rd[r].pc = "idle"
    /\ rd' = [rd EXCEPT ![r] = [pc |-> "loop", policies |-> policies, i |-> 1,
                                grants |-> <<>>, raced |-> FALSE]]
    /\ UNCHANGED <<wr, mapWriting>>
    /\ UNCHANGED <<sysVars, matchVars>>

\* the read of a.extraGrants[p] begins
ReadBegin(r) ==
    /\ ~Crashed
    /\ rd[r].pc = "loop"
    /\ rd' = [rd EXCEPT ![r].pc = "reading", ![r].raced = mapWriting]
    /\ UNCHANGED <<wr, mapWriting>>
    /\ UNCHANGED <<sysVars, matchVars>>

\* the lists a read of policy p may yield
Seen(r, p) ==
    IF ~rd[r].raced THEN {Lookup(extraGrants[Racer], p)}
    ELSE IF p = "internal" THEN {wr.old, wr.new, TornList}
    ELSE {Lookup(extraGrants[Racer], p), <<>>}

\* the read ends, its list is appended, and the stored list of the policy
\* is read and appended
ReadEnd(r) ==
    LET p == rd[r].policies[rd[r].i]
        data == StaleGet(Racer, Key(p))
        stored == IF data.kind # "nil" THEN Unmarshal(data).grants ELSE <<>>
        more == rd[r].i < Len(rd[r].policies)
    IN  /\ ~Crashed
        /\ rd[r].pc = "reading"
        /\ \/ \E seen \in Seen(r, p) :
                 rd' = [rd EXCEPT ![r].pc = IF more THEN "loop" ELSE "done",
                                  ![r].i = IF more THEN @ + 1 ELSE @,
                                  ![r].grants = @ \o seen \o stored,
                                  ![r].raced = FALSE]
           \/ /\ rd[r].raced
              /\ rd' = [rd EXCEPT ![r].pc = "fatal"]
        /\ UNCHANGED <<wr, mapWriting>>
        /\ UNCHANGED <<sysVars, matchVars>>

\* grantsByPolicies returns
ReadReturn(r) ==
    /\ ~Crashed
    /\ rd[r].pc = "done"
    /\ rd' = [rd EXCEPT ![r] = NoCall]
    /\ UNCHANGED <<wr, mapWriting>>
    /\ UNCHANGED <<sysVars, matchVars>>

\* GrantInternal: name.Format(subj), a panic on an error
RegFormat(subj) ==
    /\ ~Crashed
    /\ wr.pc = "idle"
    /\ Len(Lookup(extraGrants[Racer], "internal")) < MaxLocal
    /\ wr' = IF Format(subj).err
             THEN [wr EXCEPT !.pc = "panicked"]
             ELSE [wr EXCEPT !.pc = "formatted", !.data = Format(subj).data]
    /\ UNCHANGED <<rd, mapWriting>>
    /\ UNCHANGED <<sysVars, matchVars>>

\* GrantInternal: append(a.extraGrants["internal"], &Grant{...})
RegAppend ==
    /\ ~Crashed
    /\ wr.pc = "formatted"
    /\ wr' = [wr EXCEPT !.pc = "appended",
                        !.old = Lookup(extraGrants[Racer], "internal"),
                        !.new = Append(Lookup(extraGrants[Racer], "internal"),
                                       Grant("x509", wr.data, "internal"))]
    /\ UNCHANGED <<rd, mapWriting>>
    /\ UNCHANGED <<sysVars, matchVars>>

\* GrantInternal: the assignment a.extraGrants["internal"] = ... begins
RegAssignBegin ==
    /\ ~Crashed
    /\ wr.pc = "appended"
    /\ wr' = [wr EXCEPT !.pc = "assigning"]
    /\ mapWriting' = TRUE
    /\ rd' = [r \in Readers |->
                 IF rd[r].pc = "reading" THEN [rd[r] EXCEPT !.raced = TRUE] ELSE rd[r]]
    /\ UNCHANGED <<sysVars, matchVars>>

\* GrantInternal: the assignment ends, and the call returns
RegAssignEnd ==
    /\ ~Crashed
    /\ wr.pc = "assigning"
    /\ wr' = [wr EXCEPT !.pc = "idle"]
    /\ mapWriting' = FALSE
    /\ extraGrants' = [extraGrants EXCEPT ![Racer] = ("internal" :> wr.new) @@ @]
    /\ registered' = [registered EXCEPT ![Racer] = @ \cup {Parse(wr.data).name}]
    /\ UNCHANGED rd
    /\ UNCHANGED <<log, applied, last>>
    /\ UNCHANGED matchVars

NextRace ==
    \/ \E r \in Readers, policies \in RacePolicies : ReadCall(r, policies)
    \/ \E r \in Readers : ReadBegin(r)
    \/ \E r \in Readers : ReadEnd(r)
    \/ \E r \in Readers : ReadReturn(r)
    \/ \E subj \in RegSubjects : RegFormat(subj)
    \/ RegAppend
    \/ RegAssignBegin
    \/ RegAssignEnd

SpecRace == Init /\ [][NextRace]_vars

(***************************************************************************)
(* What the claims speak of, stated without the code's loops               *)
(***************************************************************************)
Range(seq) == {seq[i] : i \in 1..Len(seq)}

IsPrefix(pat, x) == Len(x) >= Len(pat) /\ SubSeq(x, 1, Len(pat)) = pat

\* one certificate subject satisfies the whole pattern by itself
Satisfies(pat, subj) ==
    /\ pat.CommonName = "" \/ pat.CommonName = subj.CommonName
    /\ pat.SerialNumber = "" \/ pat.SerialNumber = subj.SerialNumber
    /\ \A f \in MultiFields : IsPrefix(pat[f], subj[f])

SomeCertSatisfies(pat, ctx) == \E i \in 1..Len(ctx.certs) : Satisfies(pat, ctx.certs[i])

\* the route key strips to k: k followed by slashes only
StripsTo(uri, k) ==
    /\ Len(uri) >= Len(k)
    /\ SubSeq(uri, 1, Len(k)) = k
    /\ \A i \in (Len(k) + 1)..Len(uri) : uri[i] = "/"
    /\ k = <<>> \/ k[Len(k)] # "/"

\* the policies the route table requires of a request URI
Required(uri) ==
    UNION {Range(policyByRoute[k]) : k \in {r \in DOMAIN policyByRoute : StripsTo(uri, r)}}

\* what the replica of process a holds under a policy
View(a, q) ==
    IF Key(q) \in DOMAIN log[applied[a]] THEN log[applied[a]][Key(q)] ELSE NoValue

Decodable(a, uri) == \A q \in Required(uri) : View(a, q).kind # "corrupt"

Builtin == Range(builtinGrants)
Local(a) == {Grant("x509", Format(s).data, "internal") : s \in registered[a]}
Distributed(a) == UNION {Range(View(a, q).grants) : q \in StoredPolicies}
Merged(a) == Builtin \cup Local(a) \cup Distributed(a)

Matching(grants, uri, ctx) ==
    {g \in grants : g.Policy \in Required(uri) /\ guardCase(ctx, g)}

Authorized == last.op = "Authorize"

(***************************************************************************)
(* Claims                                                                  *)
(***************************************************************************)

Single(type) == mDone /\ Len(mGrants) = 1 /\ mGrants[1].GuardType = type

HasID(data) == data.enc = "json" /\ \E i \in 1..Len(data.kv) : data.kv[i][1] = "id"

\* C2: an access_token guard matches a context exactly when its id equals
\* the presented token identifier and that token is not empty: a request
\* without a token never passes an access_token grant, not even one whose
\* id is the empty string.
C2_AccessTokenNeedsToken ==
    (Single("access_token") /\ HasID(mGrants[1].GuardData))
    => (mResult <=> /\ JsonID(mGrants[1].GuardData) = mCtx.token
                    /\ mCtx.token # "")

C4_MissingPolicy ==
    (Authorized /\ Required(last.uri) = {})
    => /\ last.result = ErrMissingPolicy
       /\ last.result # ErrNotAuthorized
       /\ last.evaluated = 0

\* no policy for /status, while the token would pass a stored grant
C4_Witness ==
    /\ Authorized
    /\ last.uri = <<"/status">>
    /\ last.ctx.token = "tok123"
    /\ TokGrant \in Distributed(last.proc)
    /\ last.result = ErrMissingPolicy

Malformed(g) ==
    \/ g.GuardType = "access_token" /\ g.GuardData.enc # "json"
    \/ g.GuardType = "x509" /\ Parse(g.GuardData).err

Remove(seq, i) == SubSeq(seq, 1, i - 1) \o SubSeq(seq, i + 1, Len(seq))

\* C8: a grant whose guard payload is malformed matches no context, and the
\* outcome is that of the same grant list without the malformed grant.
C8_MalformedGuardNeverMatches ==
    mDone
    => \A i \in 1..Len(mGrants) :
          Malformed(mGrants[i])
          => /\ ~guardCase(mCtx, mGrants[i])
             /\ mResult = authorized(mCtx, Remove(mGrants, i))

\* C9: fetching the grants fails exactly when the stored bytes of one of the
\* required policies are present and are no grant list, and Authorize then
\* returns that error whatever the context and the other grants; a policy
\* with no stored value is no error, and with none stored the decision is
\* that of the builtin and process-local grants.
C9_UndecodableListIsTheOnlyStoreError ==
    (Authorized /\ Required(last.uri) # {})
    => /\ last.result = ErrUnmarshal
            <=> \E q \in Required(last.uri) : View(last.proc, q).kind = "corrupt"
       /\ (\A q \in Required(last.uri) : View(last.proc, q).kind = "nil")
            => (last.result = Permit
                  <=> Matching(Builtin \cup Local(last.proc), last.uri, last.ctx) # {})

\* the store error wins over a process-local grant the context satisfies
C9_Witness ==
    /\ Authorized
    /\ last.result = ErrUnmarshal
    /\ View(last.proc, "network").kind = "corrupt"
    /\ Matching(Local(last.proc), last.uri, last.ctx) # {}

\* C10: GrantInternal with a subject that cannot be formatted fails at once
\* with a failure its caller sees, and the process-local grants are what they
\* were before the call.
C10_BadRegistrationFailsAndAddsNothing ==
    [][(last = Idle /\ last'.op = "GrantInternal" /\ Format(last'.subj).err)
          => (last'.result = Panic /\ extraGrants' = extraGrants)]_vars

\* a failed registration on a process that holds an accepted one
C10_Witness ==
    /\ last.op = "GrantInternal"
    /\ last.subj = BadSubject
    /\ last.result = Panic
    /\ Len(Lookup(extraGrants[last.proc], "internal")) = 1

\* the context shows a certificate that satisfies a pattern in the set
Trusted(patterns, ctx) == \E pat \in patterns : SomeCertSatisfies(pat, ctx)

RegisteredElsewhere(a) == UNION {registered[b] : b \in Procs \ {a}}

C6_Visibility ==
    (Authorized /\ "internal" \in Required(last.uri) /\ Decodable(last.proc, last.uri))
    => /\ Trusted(registered[last.proc], last.ctx) => last.result = Permit
       /\ (/\ Trusted(RegisteredElsewhere(last.proc), last.ctx)
           /\ ~Trusted(registered[last.proc], last.ctx)
           /\ Matching(Builtin \cup Distributed(last.proc), last.uri, last.ctx) = {})
          => last.result = ErrNotAuthorized

C6_NoStoreWrite ==
    (last = Idle /\ last'.op = "GrantInternal") => (log' = log /\ applied' = applied)

InNewest(g) == g \in Range(Newest[Key(g.Policy)].grants)
InView(a, g) == g \in Range(View(a, g.Policy).grants)

\* a permit that no builtin or process-local grant accounts for rests on a
\* grant of the version the replica has applied, one of the versions the
\* store has held; and a grant of that version is honored
C7_StaleReadSafety ==
    /\ \A a \in Procs : applied[a] \in 1..Len(log)
    /\ (Authorized /\ Required(last.uri) # {})
       => /\ (/\ last.result = Permit
              /\ Matching(Builtin \cup Local(last.proc), last.uri, last.ctx) = {})
             => \E g \in Matching(Distributed(last.proc), last.uri, last.ctx) :
                   \E v \in 1..applied[last.proc] :
                      g \in Range(log[v][Key(g.Policy)].grants)
          /\ (/\ Decodable(last.proc, last.uri)
              /\ Matching(Distributed(last.proc), last.uri, last.ctx) # {})
             => last.result = Permit

\* a grant the store holds comes to be held by every replica, unless it is
\* deleted first
C7_CreatedGrantSpreads ==
    \A a \in Procs : \A g \in DistGrants :
        InNewest(g) ~> (InView(a, g) \/ ~InNewest(g))

\* C7: distributed grants are read stale.  Authorize sees, for each required
\* policy, a version of the stored list that the store held at or before the
\* read: a permit through a distributed grant needs that grant to have been
\* created; a deleted grant is honored only by a replica that has not applied
\* the deletion; a created grant is honored on every replica once
\* replication has caught up.
C7_StaleReads == []C7_StaleReadSafety /\ C7_CreatedGrantSpreads

\* a deleted grant still honored by a replica that has not applied the deletion
C7_Witness ==
    /\ Authorized
    /\ last.uri = <<"/accounts">>
    /\ last.ctx.token = "tok123"
    /\ last.result = Permit
    /\ InView(last.proc, TokGrant)
    /\ ~InNewest(TokGrant)

\* C5: a registration is safe beside the Authorize calls in flight: no read
\* of the process-local grants happens while they are being assigned to,
\* and every read yields the complete list before or after the registration.
C5_RegistrationNeverOverlapsARead ==
    \A r \in Readers :
        /\ ~(mapWriting /\ rd[r].pc = "reading")
        /\ rd[r].pc # "fatal"
        /\ \A i \in 1..Len(rd[r].grants) : rd[r].grants[i] \notin Range(TornList)

\* the matcher was handed a list of localhost grants and nothing else
OnlyLocalhost ==
    /\ mDone
    /\ mGrants # <<>>
    /\ \A i \in 1..Len(mGrants) : mGrants[i].GuardType = "localhost"

\* C11: a localhost guard matches exactly when the connection is a loopback
\* one: a list of localhost grants permits every loopback request and no
\* other request, whatever token or certificates it presents.
C11_LocalhostIffLoopback == OnlyLocalhost => (mResult <=> mCtx.localhost)

\* a remote request with a token and a certificate, refused
C11_Witness ==
    /\ OnlyLocalhost
    /\ ~mCtx.localhost
    /\ mCtx.token # ""
    /\ mCtx.certs # <<>>
    /\ ~mResult

\* the process-local grants of process a hold the grant {any, public}
HoldsPublicAny(a) ==
    \E i \in 1..Len(Lookup(extraGrants[a], "public")) :
        /\ Lookup(extraGrants[a], "public")[i].GuardType = "any"
        /\ Lookup(extraGrants[a], "public")[i].Policy = "public"

\* C12: an any guard matches every context, one without token, certificate
\* or loopback connection included.  Every Authorizer holds the builtin
\* grant {any, public} from its construction on, whatever is registered or
\* stored, so Authorize permits every context on a route whose policies
\* include public and whose stored lists decode.
C12_PublicIsOpenToAll ==
    /\ \A a \in Procs : HoldsPublicAny(a)
    /\ (Authorized /\ "public" \in Required(last.uri)
           /\ Decodable(last.proc, last.uri))
       => last.result = Permit

\* a request without credentials permitted on a public route, after a
\* registration on the process and a write to the store
C12_Witness ==
    /\ Authorized
    /\ last.uri = <<"/info">>
    /\ last.ctx = EmptyContext
    /\ last.result = Permit
    /\ registered[last.proc] # {}
    /\ Len(log) > 1

====
